---- MODULE Spec2Model ----
(***************************************************************************)
(* Oasis backend: the HTTP service of backend/main.py over the relational  *)
(* schema of backend/models.py.                                            *)
(*                                                                         *)
(* Spec       the four endpoints served concurrently against the           *)
(*            "activities" table (request validation, ORM unit of work,    *)
(*            flush / COMMIT / refresh, database outages).                 *)
(* SpecSchema the six tables with their keys, foreign keys and ON DELETE   *)
(*            rules: every INSERT and every DELETE.                        *)
(* SpecSessions the life cycle of a Session between its User and its Flow: *)
(*            started, ended with an outcome, deleted.                     *)
(***************************************************************************)
EXTENDS Integers, Sequences, FiniteSets, TLC

VARIABLES
    activities,         \* table "activities": the committed rows
    dbUp,               \* whether the database answers
    now,                \* the database clock, func.now(): it advances with every transaction
    reqs,               \* the HTTP requests: kind, position, payload, ORM object, response
    dbsess,             \* the AsyncSession objects: holders, pending objects, open transaction
    issued,             \* history: ids returned by POST /activities with status 200, in order
    created,            \* history: ids of the rows COMMITted by POST /activities, in order
    users,              \* table "users"
    flows,              \* table "flows"
    flow_steps,         \* table "flow_steps"
    sessions,           \* table "sessions"
    session_step_logs,  \* table "session_step_logs"
    last                \* history: the last statement run on the schema and the rows it found

vars == <<activities, dbUp, now, reqs, dbsess, issued, created,
          users, flows, flow_steps, sessions, session_step_logs, last>>

httpVars == <<dbUp, reqs, dbsess, issued, created>>
schemaVars == <<users, flows, flow_steps, sessions, session_step_logs, last>>

(***************************************************************************)
(* Bounds of the model.                                                    *)
(***************************************************************************)
MaxRequests == 2
NumUUIDs == 2

Requests == 1..MaxRequests
SessionIds == 1..MaxRequests
\* The values str(uuid4()) can take; NULL is the SQL NULL / Python None of an
\* id or timestamp column.
UUID == 1..NumUUIDs
NULL == 0

(***************************************************************************)
(* models.py: the enumerations.  A member has a name and a value.          *)
(***************************************************************************)
ActivityCategory ==
    { [name |-> "BREATHWORK", value |-> "breathwork"],
      [name |-> "GROUNDING", value |-> "grounding"],
      [name |-> "JOURNALING", value |-> "journaling"],
      [name |-> "SENSORY_MINDFULNESS", value |-> "sensory_mindfulness"],
      [name |-> "MOVEMENT", value |-> "movement"],
      [name |-> "NATURE", value |-> "nature"],
      [name |-> "CONNECTION", value |-> "connection"],
      [name |-> "COLD_EXPOSURE", value |-> "cold_exposure"],
      [name |-> "MEDITATION", value |-> "meditation"] }

ActivityTimeWide ==
    { [name |-> "FIVE_MINUTES", value |-> 5],
      [name |-> "SEVEN_MINUTES", value |-> 7],
      [name |-> "TEN_MINUTES", value |-> 10],
      [name |-> "FIFTEEN_MINUTES", value |-> 15],
      [name |-> "TWENTY_MINUTES", value |-> 20],
      [name |-> "THIRTY_MINUTES", value |-> 30] }

ActivityTime ==
    { [name |-> "FIVE_MINUTES", value |-> 5],
      [name |-> "TEN_MINUTES", value |-> 10],
      [name |-> "FIFTEEN_MINUTES", value |-> 15],
      [name |-> "TWENTY_MINUTES", value |-> 20],
      [name |-> "THIRTY_MINUTES", value |-> 30] }

SessionOutcome ==
    { [name |-> "COMPLETED", value |-> "completed"],
      [name |-> "ABANDONED", value |-> "abandoned"],
      [name |-> "EXITED_EARLY", value |-> "exited_early"] }

\* Enum(value): the member with that value, as pydantic validates an input.
HasValue(E, v) == \E m \in E : m.value = v
ByValue(E, v) == CHOOSE m \in E : m.value = v
\* Enum[name]: SQLAlchemy's Enum column type stores a member by its name.
ByName(E, n) == CHOOSE m \in E : m.name = n

\* config.py: Settings.app_name
app_name == "Oasis"

\* String(100) of Activity.name
NameMaxLen == 100

(***************************************************************************)
(* schemas.py                                                              *)
(***************************************************************************)
RequiredFields == {"name", "category", "duration_minutes", "instructions"}

\* Whether a JSON object passes ActivityCreate's validation.
ActivityCreateValid(p) ==
    /\ RequiredFields \subseteq DOMAIN p
    /\ HasValue(ActivityCategory, p.category)
    /\ HasValue(ActivityTime, p.duration_minutes)

\* The validated model: the enumeration fields hold members.
ActivityCreate(p) ==
    [ name |-> p.name,
      category |-> ByValue(ActivityCategory, p.category),
      duration_minutes |-> ByValue(ActivityTime, p.duration_minutes),
      instructions |-> p.instructions ]

ActivityResponseByName(obj) ==
    [ id |-> obj.id,
      name |-> obj.name,
      category |-> obj.category.name,
      duration_minutes |-> obj.duration_minutes.name,
      instructions |-> obj.instructions ]

\* ActivityResponse.model_validate(obj, from_attributes) dumped to JSON: the
\* five declared fields, enumeration members by value.
ActivityResponse(obj) ==
    [ id |-> obj.id,
      name |-> obj.name,
      category |-> obj.category.value,
      duration_minutes |-> obj.duration_minutes.value,
      instructions |-> obj.instructions ]

(***************************************************************************)
(* models.py: Activity, the ORM object and its row.                        *)
(***************************************************************************)
\* Activity(name=..., category=..., ...): a transient object; id and
\* created_at are unset until the INSERT.
Activity(data) ==
    [ id |-> NULL,
      name |-> data.name,
      category |-> data.category,
      duration_minutes |-> data.duration_minutes,
      instructions |-> data.instructions,
      created_at |-> NULL ]

ActivityRowNoTimestamp(obj, id, ts) ==
    [ id |-> id,
      name |-> obj.name,
      category |-> obj.category.name,
      duration_minutes |-> obj.duration_minutes.name,
      instructions |-> obj.instructions,
      created_at |-> NULL ]

\* The row the INSERT writes: id from the column default, created_at from
\* the server default now(), enumeration members by name.
ActivityRow(obj, id, ts) ==
    [ id |-> id,
      name |-> obj.name,
      category |-> obj.category.name,
      duration_minutes |-> obj.duration_minutes.name,
      instructions |-> obj.instructions,
      created_at |-> ts ]

\* The object the ORM loads from a row.
ActivityFromRow(row) ==
    [ id |-> row.id,
      name |-> row.name,
      category |-> ByName(ActivityCategory, row.category),
      duration_minutes |-> ByName(ActivityTime, row.duration_minutes),
      instructions |-> row.instructions,
      created_at |-> row.created_at ]

PrimaryKeyUnchecked(table, rows) == TRUE

\* primary_key=True: no row of the INSERT repeats a key of the table or of
\* another row of the INSERT.
PrimaryKeyOk(table, rows) ==
    /\ \A x \in rows : \A y \in table : x.id # y.id
    /\ \A x \in rows : \A y \in rows : x.id = y.id => x = y

\* String(100): PostgreSQL rejects a longer value.
NameFits(row) == Len(row.name) <= NameMaxLen

(***************************************************************************)
(* The inputs the requests are drawn from.                                 *)
(***************************************************************************)
LongName ==
    "Alternate nostril breathing with extended exhale, followed by a slow body scan from head to toe, twice"
ShortName == "Box breathing"
Instructions == "Inhale for four counts, hold for four, exhale for four"

\* Bodies that are an ActivityCreate (the last one with a name longer than
\* the column), and bodies that are not: a category or a duration outside
\* the enumeration, or a required field missing.
ValidPayloads ==
    { [name |-> ShortName, category |-> "breathwork", duration_minutes |-> 5,
       instructions |-> Instructions],
      [name |-> ShortName, category |-> "meditation", duration_minutes |-> 30,
       instructions |-> Instructions],
      [name |-> LongName, category |-> "breathwork", duration_minutes |-> 5,
       instructions |-> Instructions] }

InvalidPayloads ==
    { [name |-> ShortName, category |-> "yoga", duration_minutes |-> 5,
       instructions |-> Instructions],
      [name |-> ShortName, category |-> "breathwork", duration_minutes |-> 7,
       instructions |-> Instructions],
      [name |-> ShortName, duration_minutes |-> 5, instructions |-> Instructions],
      [name |-> ShortName, category |-> "breathwork", duration_minutes |-> 5] }

Payloads == ValidPayloads \cup InvalidPayloads

(***************************************************************************)
(* Requests and database sessions.                                         *)
(***************************************************************************)
NoObject == Activity([name |-> "", category |-> "", duration_minutes |-> 0, instructions |-> ""])
NoResponse == [status |-> 0, body |-> <<>>]
\* History kept with a request: what had been issued and committed when it
\* read the table, whether no other request was in flight then, and whether
\* the database was up when it was answered.
NoSeen == [issued |-> <<>>, created |-> <<>>, quiet |-> FALSE, up |-> TRUE]

NoStatement == [op |-> "none", key |-> NULL, sessions |-> {}, steps |-> {}, logs |-> {}]

IdleRequest ==
    [ kind |-> "none", pc |-> "idle", payload |-> <<>>, db |-> NULL,
      activity |-> NoObject, response |-> NoResponse, seen |-> NoSeen ]

ClosedSession == [open |-> FALSE, holders |-> {}, new |-> {}, txn |-> {}]

\* Requests are numbered in the order they arrive.
NextRequest(r) == reqs[r].pc = "idle" /\ \A q \in Requests : q < r => reqs[q].pc # "idle"

InFlight(r) == reqs[r].pc \notin {"idle", "done"}

\* database.get_db: the sessions the dependency may hand to a request. The
\* session factory makes a new AsyncSession for every request.
get_db_shared == {1}
get_db ==
    LET free == {s \in SessionIds : ~dbsess[s].open}
    IN  {CHOOSE s \in free : \A t \in free : s <= t}

\* get_db's exit: the session is closed; what it had not committed is
\* rolled back.
CloseSession(s) == [dbsess EXCEPT ![s] = ClosedSession]

\* What a statement of session s reads from the table: the committed rows
\* and the rows of its own transaction.
VisibleDirty(s) == activities \cup UNION {dbsess[t].txn : t \in SessionIds}
Visible(s) == activities \cup dbsess[s].txn

\* The request is answered.
Respond(r, status, body) ==
    [reqs EXCEPT ![r].pc = "done", ![r].response = [status |-> status, body |-> body]]

\* Every order in which a SELECT without ORDER BY may return the rows.
Orderings(S) ==
    {q \in [1..Cardinality(S) -> S] : \A e \in S : \E i \in 1..Cardinality(S) : q[i] = e}

(***************************************************************************)
(* main.py: the endpoints.                                                 *)
(***************************************************************************)
\* A health check that asks the database.
health_check_db(r) ==
    /\ NextRequest(r)
    /\ reqs' = [reqs EXCEPT ![r].kind = "HEALTH", ![r].pc = "done",
                            ![r].response = IF dbUp THEN [status |-> 200, body |-> [status |-> "ok"]]
                                                    ELSE [status |-> 500, body |-> <<>>],
                            ![r].seen.up = dbUp]
    /\ UNCHANGED <<activities, dbUp, now, dbsess, issued, created, schemaVars>>

\* GET /health
health_check(r) ==
    /\ NextRequest(r)
    /\ reqs' = [reqs EXCEPT ![r].kind = "HEALTH", ![r].pc = "done",
                            ![r].response = [status |-> 200, body |-> [status |-> "ok"]],
                            ![r].seen.up = dbUp]
    /\ UNCHANGED <<activities, dbUp, now, dbsess, issued, created, schemaVars>>

\* GET /
root(r) ==
    /\ NextRequest(r)
    /\ reqs' = [reqs EXCEPT ![r].kind = "ROOT", ![r].pc = "done",
                            ![r].response = [status |-> 200,
                                body |-> [name |-> app_name, version |-> "0.1.0", docs |-> "/docs"]]]
    /\ UNCHANGED <<activities, dbUp, now, dbsess, issued, created, schemaVars>>

\* POST /activities, up to "await db.commit()": the body is validated (422
\* when it is not an ActivityCreate; the session the request was given is
\* closed unused), the Activity is constructed and added to the request's
\* session.
create_activity(r, p) ==
    /\ NextRequest(r)
    /\ \E s \in get_db :
        IF ActivityCreateValid(p)
        THEN /\ reqs' = [reqs EXCEPT ![r] =
                    [ kind |-> "POST", pc |-> "flush", payload |-> p, db |-> s,
                      activity |-> Activity(ActivityCreate(p)),
                      response |-> NoResponse, seen |-> NoSeen ]]
             /\ dbsess' = [dbsess EXCEPT ![s] =
                    [ open |-> TRUE, holders |-> @.holders \cup {r},
                      new |-> @.new \cup {r}, txn |-> @.txn ]]
        ELSE /\ reqs' = [reqs EXCEPT ![r] =
                    [ kind |-> "POST", pc |-> "done", payload |-> p, db |-> NULL,
                      activity |-> NoObject,
                      response |-> [status |-> 422, body |-> <<>>], seen |-> NoSeen ]]
             /\ dbsess' = dbsess
    /\ UNCHANGED <<activities, dbUp, now, issued, created, schemaVars>>

\* db.commit(), first half: the flush. Every pending object of the session
\* gets its id from the column default and is INSERTed in the session's
\* transaction. The INSERT waits while another transaction holds an
\* uncommitted row with the same key; a key the table already holds, or a
\* name longer than the column, raises and the request ends with a 500.
Flush(r) ==
    /\ reqs[r].pc = "flush"
    /\ dbUp
    /\ LET s == reqs[r].db
           pending == dbsess[s].new
       IN  \E ids \in [pending -> UUID] :
            LET rows == {ActivityRow(reqs[o].activity, ids[o], now) : o \in pending}
            IN  /\ \A t \in SessionIds \ {s} :
                       \A x \in rows : \A y \in dbsess[t].txn : x.id # y.id
                /\ IF PrimaryKeyOk(Visible(s), rows)
                      /\ \A x \in rows : NameFits(x)
                   THEN /\ reqs' = [q \in Requests |->
                               IF q \in pending
                               THEN [reqs[q] EXCEPT !.activity.id = ids[q],
                                                    !.pc = IF q = r THEN "commit" ELSE @]
                               ELSE IF q = r THEN [reqs[q] EXCEPT !.pc = "commit"]
                               ELSE reqs[q]]
                        /\ dbsess' = [dbsess EXCEPT ![s].new = {}, ![s].txn = @ \cup rows]
                   ELSE /\ reqs' = Respond(r, 500, <<>>)
                        /\ dbsess' = CloseSession(s)
    /\ now' = now + 1
    /\ UNCHANGED <<activities, dbUp, issued, created, schemaVars>>

\* db.commit(), second half: COMMIT makes the transaction's rows visible.
Commit(r) ==
    /\ reqs[r].pc = "commit"
    /\ dbUp
    /\ LET s == reqs[r].db
           rows == dbsess[s].txn
       IN  /\ activities' = activities \cup rows
           /\ dbsess' = [dbsess EXCEPT ![s].txn = {}]
           /\ \E order \in Orderings(rows) :
                created' = created \o [i \in 1..Cardinality(rows) |-> order[i].id]
    /\ reqs' = [reqs EXCEPT ![r].pc = "refresh"]
    /\ UNCHANGED <<dbUp, now, issued, schemaVars>>

\* db.refresh(activity) and the return: the object is reloaded from its row
\* and serialized through response_model=ActivityResponse.
Refresh(r) ==
    /\ reqs[r].pc = "refresh"
    /\ dbUp
    /\ LET s == reqs[r].db
           found == {row \in Visible(s) : row.id = reqs[r].activity.id}
       IN  IF found = {}
           THEN /\ reqs' = Respond(r, 500, <<>>)
                /\ issued' = issued
           ELSE LET obj == ActivityFromRow(CHOOSE row \in found : TRUE)
                IN  /\ reqs' = [Respond(r, 200, ActivityResponse(obj)) EXCEPT ![r].activity = obj]
                    /\ issued' = Append(issued, obj.id)
    /\ dbsess' = CloseSession(reqs[r].db)
    /\ UNCHANGED <<activities, dbUp, now, created, schemaVars>>

\* GET /activities, up to "await db.execute(...)".
get_activitiesdb(r) ==
    /\ NextRequest(r)
    /\ \E s \in get_db :
        /\ reqs' = [reqs EXCEPT ![r].kind = "GET", ![r].pc = "execute", ![r].db = s]
        /\ dbsess' = [dbsess EXCEPT ![s].open = TRUE, ![s].holders = @ \cup {r}]
    /\ UNCHANGED <<activities, dbUp, now, issued, created, schemaVars>>

\* select(Activity): every committed row (and the session's own), in the
\* database's order, each serialized as an ActivityResponse.
Execute(r) ==
    /\ reqs[r].pc = "execute"
    /\ dbUp
    /\ LET s == reqs[r].db
           rows == Visible(s)
       IN  \E order \in Orderings(rows) :
            reqs' = [Respond(r, 200,
                        [i \in 1..Cardinality(rows) |-> ActivityResponse(ActivityFromRow(order[i]))])
                     EXCEPT ![r].seen =
                        [ issued |-> issued, created |-> created,
                          quiet |-> \A q \in Requests \ {r} : ~InFlight(q), up |-> TRUE ]]
    /\ dbsess' = CloseSession(reqs[r].db)
    /\ UNCHANGED <<activities, dbUp, now, issued, created, schemaVars>>

\* A statement sent while the database is down raises; the exception leaves
\* the handler (no retry), the session is closed and the answer is a 500.
DatabaseError(r) ==
    /\ reqs[r].pc \in {"flush", "commit", "refresh", "execute"}
    /\ ~dbUp
    /\ reqs' = Respond(r, 500, <<>>)
    /\ dbsess' = CloseSession(reqs[r].db)
    /\ UNCHANGED <<activities, dbUp, now, issued, created, schemaVars>>

\* The environment: the database goes down and comes back.
DbDown ==
    /\ dbUp
    /\ dbUp' = FALSE
    /\ UNCHANGED <<activities, now, reqs, dbsess, issued, created, schemaVars>>

DbUp ==
    /\ ~dbUp
    /\ dbUp' = TRUE
    /\ UNCHANGED <<activities, now, reqs, dbsess, issued, created, schemaVars>>

Init ==
    /\ activities = {}
    /\ dbUp = TRUE
    /\ now = 1
    /\ reqs = [r \in Requests |-> IdleRequest]
    /\ dbsess = [s \in SessionIds |-> ClosedSession]
    /\ issued = <<>>
    /\ created = <<>>
    /\ users = {}
    /\ flows = {}
    /\ flow_steps = {}
    /\ sessions = {}
    /\ session_step_logs = {}
    /\ last = NoStatement

Next ==
    \/ \E r \in Requests : health_check(r)
    \/ \E r \in Requests : root(r)
    \/ \E r \in Requests : \E p \in Payloads : create_activity(r, p)
    \/ \E r \in Requests : Flush(r)
    \/ \E r \in Requests : Commit(r)
    \/ \E r \in Requests : Refresh(r)
    \/ \E r \in Requests : get_activitiesdb(r)
    \/ \E r \in Requests : Execute(r)
    \/ \E r \in Requests : DatabaseError(r)
    \/ DbDown
    \/ DbUp

Spec == Init /\ [][Next]_vars

(***************************************************************************)
(* models.py: the relational schema. A table is the set of its rows; of    *)
(* each table the key, the foreign keys and the columns a life cycle       *)
(* writes are kept.                                                        *)
(***************************************************************************)
MaxRows == 6

\* The SQL NULL of the outcome column, whose values are member names.
NoOutcome == "NULL"

Ids(table) == {row.id : row \in table}

TotalRows ==
    Cardinality(users) + Cardinality(flows) + Cardinality(activities)
    + Cardinality(flow_steps) + Cardinality(sessions) + Cardinality(session_step_logs)

UserRow(id) == [id |-> id]

FlowRow(id) == [id |-> id]

FlowStepRow(id, f, a) == [id |-> id, flow_id |-> f, activity_id |-> a]

SessionRowCompleted(id, u, f, ts) ==
    [ id |-> id, user_id |-> u, flow_id |-> f,
      started_at |-> ts, ended_at |-> NULL, outcome |-> "COMPLETED" ]

\* A Session as it is inserted: started_at from the server default, the
\* nullable ended_at and outcome, which have no default, NULL.
SessionRow(id, u, f, ts) ==
    [ id |-> id, user_id |-> u, flow_id |-> f,
      started_at |-> ts, ended_at |-> NULL, outcome |-> NoOutcome ]

\* A SessionStepLog as it is inserted: skipped has default=False.
SessionStepLogRow(id, x, st, ts) ==
    [ id |-> id, session_id |-> x, flow_step_id |-> st,
      started_at |-> ts, completed_at |-> NULL, skipped |-> FALSE ]

\* ForeignKey(..., ondelete="CASCADE"): the rows that reference a deleted
\* key are deleted with it.
OnDeleteCascade(rows, col, keys) == {row \in rows : row[col] \notin keys}

\* ForeignKey(..., ondelete="SET NULL"): the rows that reference a deleted
\* key stay, with the reference NULL.
OnDeleteSetNull(rows, col, keys) ==
    {IF row[col] \in keys THEN [row EXCEPT ![col] = NULL] ELSE row : row \in rows}

\* The rules exchanged, as a slip in a column's declaration would have them.
Session_flow_id_cascade(rows, keys) == OnDeleteCascade(rows, "flow_id", keys)
SessionStepLog_session_id_set_null(rows, keys) == OnDeleteSetNull(rows, "session_id", keys)
SessionStepLog_flow_step_id_cascade(rows, keys) == OnDeleteCascade(rows, "flow_step_id", keys)

\* The six foreign keys, each with the rule its column declares.
FlowStep_flow_id(rows, keys) == OnDeleteCascade(rows, "flow_id", keys)
FlowStep_activity_id(rows, keys) == OnDeleteCascade(rows, "activity_id", keys)
Session_user_id(rows, keys) == OnDeleteCascade(rows, "user_id", keys)
Session_flow_id(rows, keys) == OnDeleteSetNull(rows, "flow_id", keys)
SessionStepLog_session_id(rows, keys) == OnDeleteCascade(rows, "session_id", keys)
SessionStepLog_flow_step_id(rows, keys) == OnDeleteSetNull(rows, "flow_step_id", keys)

\* The key of an INSERT. Keys carry no meaning beyond their identity, so of
\* the keys the table does not hold the INSERT takes the least.
NewKey(table, k) == k \notin Ids(table) /\ \A j \in UUID : j < k => j \in Ids(table)

\* The rows of a table that leave it in a statement.
Removed(before, after) == Ids(before) \ Ids(after)

(***************************************************************************)
(* INSERT: the key is new, a foreign key that is not NULL references a row *)
(* that exists, and a NOT NULL foreign key is not NULL.                    *)
(***************************************************************************)
InsertUser(u) ==
    /\ TotalRows < MaxRows
    /\ NewKey(users, u)
    /\ users' = users \cup {UserRow(u)}
    /\ last' = NoStatement
    /\ UNCHANGED <<activities, now, httpVars, flows, flow_steps, sessions, session_step_logs>>

InsertFlow(f) ==
    /\ TotalRows < MaxRows
    /\ NewKey(flows, f)
    /\ flows' = flows \cup {FlowRow(f)}
    /\ last' = NoStatement
    /\ UNCHANGED <<activities, now, httpVars, users, flow_steps, sessions, session_step_logs>>

InsertActivity(a) ==
    /\ TotalRows < MaxRows
    /\ \E p \in {q \in ValidPayloads : q.category = "breathwork"} :
        LET row == ActivityRow(Activity(ActivityCreate(p)), a, now)
        IN  /\ NewKey(activities, a)
            /\ PrimaryKeyOk(activities, {row})
            /\ NameFits(row)
            /\ activities' = activities \cup {row}
    /\ last' = NoStatement
    /\ UNCHANGED <<now, httpVars, users, flows, flow_steps, sessions, session_step_logs>>

InsertFlowStep(st, f, a) ==
    /\ TotalRows < MaxRows
    /\ NewKey(flow_steps, st)
    /\ f \in Ids(flows)
    /\ a \in Ids(activities)
    /\ flow_steps' = flow_steps \cup {FlowStepRow(st, f, a)}
    /\ last' = NoStatement
    /\ UNCHANGED <<activities, now, httpVars, users, flows, sessions, session_step_logs>>

InsertSession(x, u, f) ==
    /\ TotalRows < MaxRows
    /\ NewKey(sessions, x)
    /\ u \in Ids(users)
    /\ f \in Ids(flows) \cup {NULL}
    /\ sessions' = sessions \cup {SessionRow(x, u, f, now)}
    /\ last' = NoStatement
    /\ UNCHANGED <<activities, now, httpVars, users, flows, flow_steps, session_step_logs>>

InsertSessionStepLog(l, x, st) ==
    /\ TotalRows < MaxRows
    /\ NewKey(session_step_logs, l)
    /\ x \in Ids(sessions)
    /\ st \in Ids(flow_steps) \cup {NULL}
    /\ session_step_logs' = session_step_logs \cup {SessionStepLogRow(l, x, st, now)}
    /\ last' = NoStatement
    /\ UNCHANGED <<activities, now, httpVars, users, flows, flow_steps, sessions>>

(***************************************************************************)
(* The completion fields of a Session: set when the session ends.          *)
(***************************************************************************)
EndSession(x, o) ==
    /\ \E row \in sessions :
        /\ row.id = x
        /\ row.ended_at = NULL
        /\ sessions' = (sessions \ {row})
                        \cup {[row EXCEPT !.ended_at = now, !.outcome = o.name]}
    /\ last' = NoStatement
    /\ UNCHANGED <<activities, now, httpVars, users, flows, flow_steps, session_step_logs>>

(***************************************************************************)
(* DELETE of one row by its key, with the ON DELETE rules of the foreign   *)
(* keys that reference it, applied down the chain of references.           *)
(***************************************************************************)
DeleteUser(u) ==
    /\ u \in Ids(users)
    /\ users' = {row \in users : row.id # u}
    /\ sessions' = Session_user_id(sessions, {u})
    /\ session_step_logs' =
            SessionStepLog_session_id(session_step_logs, Removed(sessions, sessions'))
    /\ last' = [ op |-> "DeleteUser", key |-> u,
                 sessions |-> {row.id : row \in {x \in sessions : x.user_id = u}},
                 steps |-> {},
                 logs |-> {row.id : row \in {l \in session_step_logs :
                            \E x \in sessions : x.user_id = u /\ l.session_id = x.id}} ]
    /\ UNCHANGED <<activities, now, httpVars, flows, flow_steps>>

DeleteFlow(f) ==
    /\ f \in Ids(flows)
    /\ flows' = {row \in flows : row.id # f}
    /\ flow_steps' = FlowStep_flow_id(flow_steps, {f})
    /\ sessions' = Session_flow_id(sessions, {f})
    /\ session_step_logs' =
            SessionStepLog_flow_step_id(
                SessionStepLog_session_id(session_step_logs, Removed(sessions, sessions')),
                Removed(flow_steps, flow_steps'))
    /\ last' = [ op |-> "DeleteFlow", key |-> f,
                 sessions |-> {row.id : row \in {x \in sessions : x.flow_id = f}},
                 steps |-> {row.id : row \in {st \in flow_steps : st.flow_id = f}},
                 logs |-> {row.id : row \in {l \in session_step_logs :
                            \E st \in flow_steps : st.flow_id = f /\ l.flow_step_id = st.id}} ]
    /\ UNCHANGED <<activities, now, httpVars, users>>

DeleteActivity(a) ==
    /\ a \in Ids(activities)
    /\ activities' = {row \in activities : row.id # a}
    /\ flow_steps' = FlowStep_activity_id(flow_steps, {a})
    /\ session_step_logs' =
            SessionStepLog_flow_step_id(session_step_logs, Removed(flow_steps, flow_steps'))
    /\ last' = [ op |-> "DeleteActivity", key |-> a,
                 sessions |-> {},
                 steps |-> {row.id : row \in {st \in flow_steps : st.activity_id = a}},
                 logs |-> {row.id : row \in {l \in session_step_logs :
                            \E st \in flow_steps : st.activity_id = a /\ l.flow_step_id = st.id}} ]
    /\ UNCHANGED <<now, httpVars, users, flows, sessions>>

DeleteFlowStep(st) ==
    /\ st \in Ids(flow_steps)
    /\ flow_steps' = {row \in flow_steps : row.id # st}
    /\ session_step_logs' = SessionStepLog_flow_step_id(session_step_logs, {st})
    /\ last' = NoStatement
    /\ UNCHANGED <<activities, now, httpVars, users, flows, sessions>>

DeleteSession(x) ==
    /\ x \in Ids(sessions)
    /\ sessions' = {row \in sessions : row.id # x}
    /\ session_step_logs' = SessionStepLog_session_id(session_step_logs, {x})
    /\ last' = NoStatement
    /\ UNCHANGED <<activities, now, httpVars, users, flows, flow_steps>>

DeleteSessionStepLog(l) ==
    /\ l \in Ids(session_step_logs)
    /\ session_step_logs' = {row \in session_step_logs : row.id # l}
    /\ last' = NoStatement
    /\ UNCHANGED <<activities, now, httpVars, users, flows, flow_steps, sessions>>

\* The six tables, their inserts and every DELETE with its ON DELETE rules.
NextSchema ==
    \/ \E u \in UUID : InsertUser(u)
    \/ \E f \in UUID : InsertFlow(f)
    \/ \E a \in UUID : InsertActivity(a)
    \/ \E st \in UUID, f \in Ids(flows), a \in Ids(activities) : InsertFlowStep(st, f, a)
    \/ \E x \in UUID, u \in Ids(users), f \in Ids(flows) \cup {NULL} : InsertSession(x, u, f)
    \/ \E l \in UUID, x \in Ids(sessions), st \in Ids(flow_steps) \cup {NULL} :
            InsertSessionStepLog(l, x, st)
    \/ \E u \in Ids(users) : DeleteUser(u)
    \/ \E f \in Ids(flows) : DeleteFlow(f)
    \/ \E a \in Ids(activities) : DeleteActivity(a)
    \/ \E st \in Ids(flow_steps) : DeleteFlowStep(st)
    \/ \E x \in Ids(sessions) : DeleteSession(x)
    \/ \E l \in Ids(session_step_logs) : DeleteSessionStepLog(l)

SpecSchema == Init /\ [][NextSchema]_vars

\* The life cycle of a Session: users, flows and the sessions between them,
\* started, ended and deleted.
NextSessions ==
    \/ \E u \in UUID : InsertUser(u)
    \/ \E f \in UUID : InsertFlow(f)
    \/ \E x \in UUID, u \in Ids(users), f \in Ids(flows) \cup {NULL} : InsertSession(x, u, f)
    \/ \E x \in Ids(sessions), o \in SessionOutcome : EndSession(x, o)
    \/ \E u \in Ids(users) : DeleteUser(u)
    \/ \E f \in Ids(flows) : DeleteFlow(f)
    \/ \E x \in Ids(sessions) : DeleteSession(x)

SpecSessions == Init /\ [][NextSessions]_vars

(***************************************************************************)
(* Properties of the HTTP service (Spec).                                  *)
(***************************************************************************)
Range(q) == {q[i] : i \in DOMAIN q}
NoRepeat(q) == \A i \in DOMAIN q : \A j \in DOMAIN q : q[i] = q[j] => i = j
Answered(r, kind, status) ==
    reqs[r].kind = kind /\ reqs[r].pc = "done" /\ reqs[r].response.status = status
AllDone == \A r \in Requests : reqs[r].pc = "done"

\* The closed enumerations as the specification words them.
NineCategories ==
    {"breathwork", "grounding", "journaling", "sensory_mindfulness", "movement",
     "nature", "connection", "cold_exposure", "meditation"}
FiveDurations == {5, 10, 15, 20, 30}
WellFormed(p) ==
    /\ DOMAIN p = {"name", "category", "duration_minutes", "instructions"}
    /\ p.category \in NineCategories
    /\ p.duration_minutes \in FiveDurations

C2_InvalidPayloadPersistsNothing ==
    /\ [][\A r \in Requests :
            (reqs[r].pc = "idle" /\ reqs'[r].kind = "POST" /\ ~WellFormed(reqs'[r].payload))
            => /\ reqs'[r].pc = "done"
               /\ reqs'[r].response.status = 422
               /\ activities' = activities
               /\ dbsess' = dbsess]_vars
    /\ [](\A r \in Requests :
            (reqs[r].kind = "POST" /\ ~WellFormed(reqs[r].payload))
            => /\ Answered(r, "POST", 422)
               /\ reqs[r].activity = NoObject
               /\ \A s \in SessionIds : r \notin dbsess[s].holders \cup dbsess[s].new)

\* Rejected with a non-empty store: every kind of invalid payload.
C2_Witness ==
    /\ activities # {}
    /\ \E r \in Requests :
        /\ Answered(r, "POST", 422)
        /\ \/ "category" \notin DOMAIN reqs[r].payload
           \/ reqs[r].payload.category = "yoga"

\* C3 as claimed: a GET /activities that reads the table while no other
\* request is in flight returns exactly as many records as POSTs have
\* succeeded (were answered 200), with the ids those POSTs returned.
C3_GetReturnsSucceededPosts ==
    \A r \in Requests :
        (Answered(r, "GET", 200) /\ reqs[r].seen.quiet) =>
            /\ Len(reqs[r].response.body) = Len(reqs[r].seen.issued)
            /\ {reqs[r].response.body[i].id : i \in DOMAIN reqs[r].response.body}
                    = Range(reqs[r].seen.issued)

\* C3 as amended: a GET /activities returns exactly as many records as rows
\* had been committed by POSTs when it read the table, each record with the
\* id of one of those rows, none twice.
C3_GetReturnsCommittedRows ==
    \A r \in Requests :
        Answered(r, "GET", 200) =>
            LET ids == [i \in DOMAIN reqs[r].response.body |-> reqs[r].response.body[i].id]
            IN  /\ Len(ids) = Len(reqs[r].seen.created)
                /\ Range(ids) = Range(reqs[r].seen.created)
                /\ NoRepeat(ids)
                /\ Range(reqs[r].seen.issued) \subseteq Range(ids)

\* A GET returned the record of a POST that had succeeded.
C3_Witness ==
    \E r \in Requests :
        /\ Answered(r, "GET", 200)
        /\ Len(reqs[r].response.body) = 1
        /\ reqs[r].seen.issued = <<reqs[r].response.body[1].id>>

\* C4 as claimed: the record a successful POST returns has the id and the
\* creation timestamp.
C4_ResponseHasIdAndTimestamp ==
    \A r \in Requests :
        Answered(r, "POST", 200) =>
            /\ "id" \in DOMAIN reqs[r].response.body
            /\ "created_at" \in DOMAIN reqs[r].response.body

\* C4 as amended: the record a successful POST returns has the id of the
\* persisted row and the four payload fields, and no other field; the
\* server-assigned creation timestamp is on the row and on the object the
\* handler returns, not in the response.
C4_ResponseHasIdRowHasTimestamp ==
    \A r \in Requests :
        Answered(r, "POST", 200) =>
            /\ DOMAIN reqs[r].response.body
                    = {"id", "name", "category", "duration_minutes", "instructions"}
            /\ \E row \in activities :
                /\ row.id = reqs[r].response.body.id
                /\ row.created_at # NULL
                /\ reqs[r].activity.created_at = row.created_at
                /\ reqs[r].activity.id = row.id

C4_Witness ==
    \E r \in Requests :
        /\ Answered(r, "POST", 200)
        /\ reqs[r].activity.created_at = 2

\* C9: GET /health can be answered in every state, with the database up or
\* down; its answer is {"status": "ok"}, it holds no database session and
\* it leaves the table, the sessions and their transactions as they were.
C9_HealthIsPure ==
    /\ [](\A r \in Requests :
            /\ NextRequest(r) => ENABLED health_check(r)
            /\ reqs[r].kind = "HEALTH" =>
                /\ reqs[r].response = [status |-> 200, body |-> [status |-> "ok"]]
                /\ reqs[r].db = NULL)
    /\ [][\A r \in Requests :
            (reqs[r].pc = "idle" /\ reqs'[r].kind = "HEALTH")
            => /\ activities' = activities
               /\ dbsess' = dbsess
               /\ now' = now
               /\ \A q \in Requests \ {r} : reqs'[q] = reqs[q]]_vars

\* /health answered while the database was down and a POST was in flight.
C9_Witness ==
    \E r \in Requests :
        /\ Answered(r, "HEALTH", 200)
        /\ ~reqs[r].seen.up
        /\ \E q \in Requests : reqs[q].kind = "POST" /\ reqs[q].response.status = 500

\* Every request in flight holds an open session that no other request holds.
SessionsExclusive ==
    /\ \A s \in SessionIds : Cardinality(dbsess[s].holders) <= 1
    /\ \A r \in Requests :
        InFlight(r) =>
            /\ reqs[r].db \in SessionIds
            /\ dbsess[reqs[r].db].open
            /\ dbsess[reqs[r].db].holders = {r}

\* C10 as claimed: sessions are exclusive, and once every request has
\* finished the table holds exactly one row per POST that succeeded (was
\* answered 200), with pairwise distinct ids.
C10_OneRowPerSucceededPost ==
    /\ SessionsExclusive
    /\ AllDone =>
        /\ Cardinality(activities) = Len(issued)
        /\ Ids(activities) = Range(issued)

\* C10 as amended: sessions are exclusive, and once every request has
\* finished the table holds exactly one row per POST whose COMMIT succeeded,
\* with pairwise distinct ids, the rows of the POSTs that succeeded among
\* them; no transaction is left open.
C10_OneRowPerCommittedPost ==
    /\ SessionsExclusive
    /\ AllDone =>
        /\ Cardinality(activities) = Len(created)
        /\ Cardinality(Ids(activities)) = Cardinality(activities)
        /\ Ids(activities) = Range(created)
        /\ NoRepeat(created)
        /\ Range(issued) \subseteq Ids(activities)
        /\ \A s \in SessionIds : dbsess[s] = ClosedSession

\* Two POSTs ran interleaved (the one that flushed first was answered
\* last) and both rows are stored.
C10_Witness ==
    /\ AllDone
    /\ Len(issued) = 2
    /\ \E row \in activities : \E other \in activities :
            /\ row.created_at < other.created_at
            /\ row.id = issued[2]
            /\ other.id = issued[1]

(***************************************************************************)
(* Properties of the schema (SpecSchema, SpecSessions).                    *)
(***************************************************************************)
DeletedKeys(before, after) == Ids(before) \ Ids(after)

\* C5: deleting a Flow leaves every Session that referenced it in the
\* table, with flow_id NULL and every other column as it was.
C5_DeleteFlowNullsSessionFlow ==
    [][\A f \in DeletedKeys(flows, flows') :
        \A x \in sessions :
            x.flow_id = f =>
                /\ [x EXCEPT !.flow_id = NULL] \in sessions'
                /\ Cardinality({y \in sessions' : y.id = x.id}) = 1]_vars

\* A Flow was deleted under a session that had ended; the session is there.
C5_Witness ==
    /\ last.op = "DeleteFlow"
    /\ \E x \in sessions :
        /\ x.id \in last.sessions
        /\ x.flow_id = NULL
        /\ x.outcome = "ABANDONED"
        /\ x.ended_at # NULL

\* C6: deleting a User deletes every Session of that User and every
\* SessionStepLog of those Sessions; the Sessions and SessionStepLogs of the
\* other Users stay as they were.
C6_DeleteUserCascades ==
    [][\A u \in DeletedKeys(users, users') :
        LET owned == {x \in sessions : x.user_id = u}
            ownedLogs == {l \in session_step_logs : l.session_id \in Ids(owned)}
        IN  /\ sessions' = sessions \ owned
            /\ session_step_logs' = session_step_logs \ ownedLogs]_vars

\* A User with a session and a log was deleted; another User's session and
\* its log are there.
C6_Witness ==
    /\ last.op = "DeleteUser"
    /\ last.sessions # {}
    /\ last.logs # {}
    /\ \E x \in sessions : \E l \in session_step_logs :
        l.session_id = x.id /\ x.user_id \in Ids(users)

\* C7: deleting a Flow or an Activity deletes every FlowStep that references
\* it, and no SessionStepLog: a log that referenced a deleted FlowStep stays
\* with flow_step_id NULL, every other log stays as it was.
C7_DeleteFlowOrActivity ==
    [][(DeletedKeys(flows, flows') # {} \/ DeletedKeys(activities, activities') # {}) =>
        LET gone == {st \in flow_steps :
                        \/ st.flow_id \in DeletedKeys(flows, flows')
                        \/ st.activity_id \in DeletedKeys(activities, activities')}
        IN  /\ flow_steps' = flow_steps \ gone
            /\ session_step_logs' =
                    {IF l.flow_step_id \in Ids(gone)
                     THEN [l EXCEPT !.flow_step_id = NULL] ELSE l : l \in session_step_logs}
            /\ Ids(session_step_logs') = Ids(session_step_logs)]_vars

\* An Activity was deleted under a FlowStep that a log referenced; the log
\* is there with flow_step_id NULL, its session's flow is still there.
C7_Witness ==
    /\ last.op = "DeleteActivity"
    /\ last.steps # {}
    /\ \E l \in session_step_logs :
        /\ l.id \in last.logs
        /\ l.flow_step_id = NULL
    /\ flows # {}
    /\ flow_steps = {}

====
